---- MODULE Spec2Model ----
(***************************************************************************)
(* dragonfly: the recovery store (dragonfly-cleaner/src/recovery.rs), the  *)
(* system cleaner (dragonfly-cleaner/src/cleaner.rs) and the duplicate     *)
(* detector (dragonfly-duplicates/src/detector.rs) as state machines over  *)
(* one shared file tree.                                                   *)
(***************************************************************************)
EXTENDS Integers, Sequences, FiniteSets, TLC

(***************************************************************************)
(* Bounds of the model.                                                    *)
(***************************************************************************)
\* longest file content, in bytes
MaxLen == 1
\* largest min_size handed to find_duplicates
MaxMinSize == 1
\* entries of one walk that may fail (walk error or failed metadata lookup)
MaxSkipped == 1
\* files of one clean whose fs::remove_file may fail
MaxFailed == 1
\* last instant of the clock, in ticks
MaxTime == 3
\* clock ticks in one second: the resolution Utc::now() has below the
\* second that a recovery id keeps
TicksPerSec == 2
\* clock ticks in one day of retention
TicksPerDay == 2
\* largest retention_days handed to create_manifest
MaxRetention == 1
\* items one manifest may take
MaxItems == 2

VARIABLES
    fs,        \* the user's file tree: directory path -> [exists, entries]
    home,      \* what dirs::home_dir() returns: <<>> for None, else the path
    scan,      \* the last find_duplicates call: inputs, outcome, result
    cleaned,   \* the last SystemCleaner::clean call: inputs, outcome, result
    now,       \* the clock Utc::now() reads, in ticks
    root,      \* the recovery root: do manifests/ and archives/ exist
    index,     \* <recovery_root>/index.json
    manifests, \* <recovery_root>/manifests/<id>.json, by id
    archives,  \* <recovery_root>/archives/<id>/, by id
    pc,        \* where each process (one CLI invocation at a time) stands
    loc,       \* the local variables of each process
    ret,       \* what the last call of each process returned
    purged     \* history: the ids whose manifest cleanup_expired has removed

toolVars == <<fs, home, scan, cleaned>>

storeVars == <<now, root, index, manifests, archives, pc, loc, ret, purged>>

vars == <<fs, home, scan, cleaned, now, root, index, manifests, archives, pc, loc, ret,
          purged>>

(***************************************************************************)
(* The file tree.  A path is a sequence of components; a directory holds   *)
(* named entries; an entry is absent, a directory (any non-regular entry)  *)
(* or a regular file with its bytes.                                       *)
(***************************************************************************)
Bytes == {0, 1}

Contents == UNION {[1..n -> Bytes] : n \in 0..MaxLen}

Names == {"a", "b", "c", "d"}

HomeDir == <<"/", "Users", "u">>

ScanRoot == <<"/", "data">>

\* CleanTarget::paths (targets.rs 20-34), "~" and "/" as leading components
TargetPaths(target) ==
    CASE target = "Caches" -> << <<"~", "Library", "Caches">>, <<"/", "Library", "Caches">> >>
      [] target = "Logs"   -> << <<"~", "Library", "Logs">>, <<"/", "var", "log">> >>
      [] target = "Temp"   -> << <<"/", "tmp">>, <<"/", "var", "tmp">> >>
      [] target = "All"    -> << <<"~", "Library", "Caches">>, <<"/", "Library", "Caches">>,
                                 <<"~", "Library", "Logs">>, <<"/", "var", "log">>,
                                 <<"/", "tmp">>, <<"/", "var", "tmp">> >>

Targets == {"Caches", "Logs", "Temp", "All"}

\* the directories the cleaner's roots resolve to
CleanRoots ==
    {HomeDir \o <<"Library", "Caches">>, <<"/", "Library", "Caches">>,
     HomeDir \o <<"Library", "Logs">>, <<"/", "var", "log">>,
     <<"/", "tmp">>, <<"/", "var", "tmp">>}

Dirs == {ScanRoot} \cup CleanRoots

NoEntry == [kind |-> "none", content |-> <<>>]

DirEntry == [kind |-> "dir", content |-> <<>>]

FileOf(c) == [kind |-> "file", content |-> c]

Entries == {NoEntry, DirEntry} \cup {FileOf(c) : c \in Contents}

EmptyDir == [exists |-> TRUE, entries |-> [n \in Names |-> NoEntry]]

AbsentDir == [exists |-> FALSE, entries |-> [n \in Names |-> NoEntry]]

\* a root check that takes every path for an existing one
PathExists_Always(path) == TRUE

\* Path::exists
PathExists(path) == path \in DOMAIN fs /\ fs[path].exists

\* the directory and the name of a file path
Parent(path) == SubSeq(path, 1, Len(path) - 1)

Leaf(path) == path[Len(path)]

\* the names a walk of dir finds below it
Listing(dir) == {n \in Names : fs[dir].entries[n].kind # "none"}

\* all orders in which the members of a finite set can be listed
RECURSIVE Orderings(_)
Orderings(S) ==
    IF S = {} THEN {<<>>}
    ELSE UNION {{<<x>> \o q : q \in Orderings(S \ {x})} : x \in S}

RECURSIVE SumSeq(_)
SumSeq(q) == IF q = <<>> THEN 0 ELSE Head(q) + SumSeq(Tail(q))

(***************************************************************************)
(* DuplicateDetector (detector.rs).                                        *)
(***************************************************************************)
Algorithms == {"Blake3", "XxHash3"}

\* the digest of a byte string: the hasher is fed the bytes in order and
\* finalized; each algorithm folds with its own radix, which keeps the
\* digests of the byte strings of this model distinct, as the digests of
\* blake3 and xxh3 are on the files of a real tree
RECURSIVE Fold(_, _, _)
Fold(radix, acc, bytes) ==
    IF bytes = <<>> THEN acc
    ELSE Fold(radix, (acc * radix + Head(bytes) + 1) % (2 ^ 30), Tail(bytes))

\* a digest that tells byte strings apart by their length alone
compute_hash_ByLength(algorithm, bytes) ==
    IF algorithm = "Blake3" THEN <<"b3", Len(bytes)>>
    ELSE <<"xx", Len(bytes)>>

compute_hash(algorithm, bytes) ==
    IF algorithm = "Blake3" THEN <<"b3", Fold(3, 0, bytes)>>
    ELSE <<"xx", Fold(5, 0, bytes)>>

\* the order in which WalkDir::new(base_path).into_iter() yields the
\* entries of a directory (detector.rs 54-55): the order of the directory,
\* which the file system fixes
WalkOrder == <<"a", "b", "c", "d">>

\* the place of the entry named n in the walk
WalkRank(n) == CHOOSE i \in DOMAIN WalkOrder : WalkOrder[i] = n

\* FileEntity { path, size } of the regular file dir/n (detector.rs 61-67)
FileEntity(dir, n) ==
    [path |-> dir \o <<n>>, size |-> Len(fs[dir].entries[n].content)]

\* a walk that keeps the regular files of every size
WalkFiles_AnySize(dir, min_size, skipped) ==
    {FileEntity(dir, n) : n \in {m \in Listing(dir) \ skipped :
        fs[dir].entries[m].kind = "file"}}

\* the filter_map of the walk (detector.rs 54-72): entries whose walk or
\* metadata lookup failed are dropped, regular files of at least min_size
\* are kept
WalkFiles(dir, min_size, skipped) ==
    {FileEntity(dir, n) : n \in {m \in Listing(dir) \ skipped :
        /\ fs[dir].entries[m].kind = "file"
        /\ Len(fs[dir].entries[m].content) >= min_size}}

\* the bytes File::open + read_to_end deliver for a walked file
ReadFile(path) == fs[Parent(path)].entries[Leaf(path)].content

\* hash_groups after the loop of detector.rs 77-80: digest -> members in
\* the order the loop met them
RECURSIVE GroupByHash(_, _, _)
GroupByHash(algorithm, files, groups) ==
    IF files = <<>> THEN groups
    ELSE LET f == Head(files)
             h == compute_hash(algorithm, ReadFile(f.path))
             g == IF h \in DOMAIN groups THEN Append(groups[h], f) ELSE <<f>>
         IN  GroupByHash(algorithm, Tail(files),
                 [k \in DOMAIN groups \cup {h} |-> IF k = h THEN g ELSE groups[k]])

\* a filter that keeps every group, those of one member too
DuplicateGroups_Singletons(groups) ==
    {groups[h] : h \in {k \in DOMAIN groups : Len(groups[k]) > 0}}

\* detector.rs 83-86: the groups with two members or more
DuplicateGroups(groups) == {groups[h] : h \in {k \in DOMAIN groups : Len(groups[k]) > 1}}

\* detector.rs 91-95 and 108-112: what one group saves
GroupSavings(group) ==
    LET total_size == SumSeq([i \in DOMAIN group |-> group[i].size])
        keep_one == IF group = <<>> THEN 0 ELSE group[1].size
    IN  total_size - keep_one

\* DuplicateDetector::calculate_savings (detector.rs 105-114)
calculate_savings(duplicates) ==
    SumSeq([i \in DOMAIN duplicates |-> GroupSavings(duplicates[i])])

\* savings that keep no member of a group
PotentialSavings_KeepNone(duplicates) ==
    SumSeq([i \in DOMAIN duplicates |->
        SumSeq([j \in DOMAIN duplicates[i] |-> duplicates[i][j].size])])

\* detector.rs 89-96: the savings find_duplicates computes inline
PotentialSavings(duplicates) ==
    SumSeq([i \in DOMAIN duplicates |-> GroupSavings(duplicates[i])])

\* no call of find_duplicates has a result outstanding
NoScan ==
    [status |-> "none", path |-> <<>>, min_size |-> 0,
     walked |-> {}, files |-> <<>>, hashed |-> 0,
     duplicates |-> <<>>, potential_savings |-> 0]

\* find_duplicates on a path that does not exist (detector.rs 46-51)
FindDuplicatesNotFound(algorithm, path, min_size) ==
    /\ scan.status = "none"
    /\ ~PathExists(path)
    /\ scan' = [NoScan EXCEPT !.status = "NotFound", !.path = path,
                              !.min_size = min_size]
    /\ UNCHANGED <<fs, home, cleaned, storeVars>>

\* find_duplicates where hashing a walked file fails: compute_hash returns
\* Err for the file with index bad and `?` ends the call (detector.rs 78)
FindDuplicatesIoError(algorithm, path, min_size) ==
    /\ scan.status = "none"
    /\ PathExists(path)
    /\ \E skipped \in {s \in SUBSET Listing(path) : Cardinality(s) <= MaxSkipped} :
       \E bad \in 1..Cardinality(WalkFiles(path, min_size, skipped)) :
           scan' = [NoScan EXCEPT !.status = "Io", !.path = path,
                                  !.min_size = min_size,
                                  !.walked = Listing(path) \ skipped,
                                  !.hashed = bad - 1]
    /\ UNCHANGED <<fs, home, cleaned, storeVars>>

\* find_duplicates running to its end (detector.rs 42-102)
FindDuplicatesOk(algorithm, path, min_size) ==
    /\ scan.status = "none"
    /\ PathExists(path)
    /\ \E skipped \in {s \in SUBSET Listing(path) : Cardinality(s) <= MaxSkipped} :
       \E files \in Orderings(WalkFiles(path, min_size, skipped)) :
       \E duplicates \in Orderings(DuplicateGroups(GroupByHash(algorithm, files, <<>>))) :
           scan' = [status |-> "Ok", path |-> path, min_size |-> min_size,
                    walked |-> Listing(path) \ skipped,
                    files |-> files, hashed |-> Len(files),
                    duplicates |-> duplicates,
                    potential_savings |-> PotentialSavings(duplicates)]
    /\ UNCHANGED <<fs, home, cleaned, storeVars>>

(***************************************************************************)
(* SystemCleaner (cleaner.rs).                                             *)
(***************************************************************************)
\* expand_path (cleaner.rs 83-92): Ok with the expanded path, or NotFound
\* when the path starts with "~/" and there is no home directory
expand_path(path) ==
    IF Len(path) > 1 /\ Head(path) = "~"
    THEN IF home = <<>>
         THEN [ok |-> FALSE, path |-> <<>>]
         ELSE [ok |-> TRUE, path |-> home \o Tail(path)]
    ELSE [ok |-> TRUE, path |-> path]

\* the regular files one walk of dir yields with their metadata, in walk
\* order (cleaner.rs 99-101 and 117-119); skipped are the entries whose
\* walk or metadata lookup failed
WalkedFiles(tree, dir, rank, skipped) ==
    SelectSeq(rank, LAMBDA n :
        /\ tree[dir].entries[n].kind = "file"
        /\ (dir \o <<n>>) \notin skipped)

\* a scan that removes what it enumerates
scan_directory_Removing(tree, dir, rank, skipped) ==
    LET names == WalkedFiles(tree, dir, rank, skipped)
    IN  [tree |-> [tree EXCEPT ![dir].entries =
                      [n \in Names |-> IF \E i \in DOMAIN names : names[i] = n
                                       THEN NoEntry ELSE @[n]]],
         files |-> [i \in DOMAIN names |-> dir \o <<names[i]>>],
         bytes |-> SumSeq([i \in DOMAIN names |-> Len(tree[dir].entries[names[i]].content)])]

\* scan_directory (cleaner.rs 95-110)
scan_directory(tree, dir, rank, skipped) ==
    LET names == WalkedFiles(tree, dir, rank, skipped)
    IN  [tree |-> tree,
         files |-> [i \in DOMAIN names |-> dir \o <<names[i]>>],
         bytes |-> SumSeq([i \in DOMAIN names |-> Len(tree[dir].entries[names[i]].content)])]

\* clean_directory (cleaner.rs 113-132): failed are the files whose
\* fs::remove_file fails
clean_directory(tree, dir, rank, skipped, failed) ==
    LET names == SelectSeq(WalkedFiles(tree, dir, rank, skipped),
                           LAMBDA n : (dir \o <<n>>) \notin failed)
    IN  [tree |-> [tree EXCEPT ![dir].entries =
                      [n \in Names |-> IF \E i \in DOMAIN names : names[i] = n
                                       THEN NoEntry ELSE @[n]]],
         files |-> [i \in DOMAIN names |-> dir \o <<names[i]>>],
         bytes |-> SumSeq([i \in DOMAIN names |-> Len(tree[dir].entries[names[i]].content)])]

\* a loop that ends with NotFound at the first root that does not exist
RECURSIVE CleanLoop_MissingRootFails(_, _, _, _, _, _)
CleanLoop_MissingRootFails(paths, dry_run, rank, skipped, failed, acc) ==
    IF paths = <<>> THEN acc
    ELSE LET expanded == expand_path(Head(paths))
         IN  IF ~expanded.ok THEN [acc EXCEPT !.status = "NotFound"]
             ELSE IF ~(expanded.path \in DOMAIN acc.tree /\ acc.tree[expanded.path].exists)
             THEN [acc EXCEPT !.status = "NotFound"]
             ELSE LET r == IF dry_run
                           THEN scan_directory(acc.tree, expanded.path, rank, skipped)
                           ELSE clean_directory(acc.tree, expanded.path, rank, skipped, failed)
                  IN  CleanLoop_MissingRootFails(Tail(paths), dry_run, rank, skipped, failed,
                          [status |-> "Ok", tree |-> r.tree,
                           total_files |-> acc.total_files + Len(r.files),
                           total_bytes |-> acc.total_bytes + r.bytes,
                           all_files |-> acc.all_files \o r.files])

\* the loop of SystemCleaner::clean (cleaner.rs 37-54) over the remaining
\* paths; acc carries the tree and the totals so far
RECURSIVE CleanLoop(_, _, _, _, _, _)
CleanLoop(paths, dry_run, rank, skipped, failed, acc) ==
    IF paths = <<>> THEN acc
    ELSE LET expanded == expand_path(Head(paths))
         IN  IF ~expanded.ok THEN [acc EXCEPT !.status = "NotFound"]
             ELSE IF ~(expanded.path \in DOMAIN acc.tree /\ acc.tree[expanded.path].exists)
             THEN CleanLoop(Tail(paths), dry_run, rank, skipped, failed, acc)
             ELSE LET r == IF dry_run
                           THEN scan_directory(acc.tree, expanded.path, rank, skipped)
                           ELSE clean_directory(acc.tree, expanded.path, rank, skipped, failed)
                  IN  CleanLoop(Tail(paths), dry_run, rank, skipped, failed,
                          [status |-> "Ok", tree |-> r.tree,
                           total_files |-> acc.total_files + Len(r.files),
                           total_bytes |-> acc.total_bytes + r.bytes,
                           all_files |-> acc.all_files \o r.files])

\* no call of clean has a result outstanding
NoClean ==
    [status |-> "none", target |-> "All", dry_run |-> TRUE, before |-> <<>>,
     files_cleaned |-> 0, bytes_freed |-> 0, files_found |-> <<>>]

\* the paths of the regular files below the cleaner's roots
CleanFilePaths ==
    {p \in {d \o <<n>> : d \in CleanRoots, n \in Names} :
        fs[Parent(p)].entries[Leaf(p)].kind = "file"}

\* SystemCleaner::clean (cleaner.rs 31-61)
Clean(target, dry_run) ==
    /\ cleaned.status = "none"
    /\ \E rank \in Orderings({Leaf(p) : p \in CleanFilePaths}) :
       \E skipped \in {s \in SUBSET CleanFilePaths : Cardinality(s) <= MaxSkipped} :
       \E failed \in {s \in SUBSET CleanFilePaths : Cardinality(s) <= MaxFailed} :
        LET r == CleanLoop(TargetPaths(target), dry_run, rank, skipped, failed,
                     [status |-> "Ok", tree |-> fs, total_files |-> 0,
                      total_bytes |-> 0, all_files |-> <<>>])
        IN  /\ fs' = r.tree
            /\ cleaned' = IF r.status = "Ok"
                          THEN [status |-> "Ok", target |-> target, dry_run |-> dry_run,
                                before |-> fs,
                                files_cleaned |-> r.total_files,
                                bytes_freed |-> r.total_bytes,
                                files_found |-> r.all_files]
                          ELSE [NoClean EXCEPT !.status = r.status, !.target = target,
                                               !.dry_run = dry_run, !.before = fs]
            /\ UNCHANGED <<home, scan, storeVars>>

(***************************************************************************)
(* RecoveryManager (recovery.rs).  Every process is one user of the same   *)
(* recovery root; a call advances one file-system operation at a time.     *)
(***************************************************************************)
Procs == {1, 2}

\* the id of an instant: Utc::now().format("%Y-%m-%d_%H-%M-%S") keeps the
\* seconds and drops what is below them (recovery.rs 86)
FormatId(t) == t \div TicksPerSec

Ids == 0..FormatId(MaxTime)

\* chrono::Duration::days (recovery.rs 88)
Days(d) == d * TicksPerDay

\* archives/<id>/ holds the archived files by their path below the root
RelPaths == {Tail(d \o <<n>>) : d \in CleanRoots, n \in Names}

NoArchive == [exists |-> FALSE, files |-> [r \in RelPaths |-> NoEntry]]

\* a process holds no manifest
NoManifest ==
    [id |-> -1, timestamp |-> 0, total_size |-> 0, items |-> <<>>, retention_until |-> 0]

\* RecoveryIndex { recoveries } as serde_json::to_string_pretty writes it
EmptyIndex == <<>>

\* a file on disk: absent, unparsable, or the text of a value; len is its
\* length in bytes (the number of entries stands for it)
AbsentFile == [state |-> "absent", val |-> <<>>, len |-> 0]

Truncated == [state |-> "corrupt", val |-> <<>>, len |-> 0]

FileWith(v, n) == [state |-> "ok", val |-> v, len |-> n]

\* File::create of std::fs::write: the file exists and is empty
CreateFile(file) == Truncated

\* write_all of std::fs::write on the handle File::create returned: the
\* text goes to offset 0 of whatever the file holds by now; after an unlink
\* it goes to no path, and behind a longer text written meanwhile it leaves
\* that text's tail
WriteAll(file, v, n) ==
    IF file.state = "absent" THEN file
    ELSE IF file.len > n THEN [state |-> "corrupt", val |-> <<>>, len |-> file.len]
    ELSE FileWith(v, n)

IndexText(ids) == FileWith(ids, Len(ids))

ManifestText(m) == FileWith(m, Len(m.items))

\* a load that answers a missing manifest file with an empty manifest
load_manifest_Lenient(id) ==
    IF id \notin DOMAIN manifests \/ manifests[id].state # "ok"
    THEN [status |-> "Ok", val |-> NoManifest]
    ELSE [status |-> "Ok", val |-> manifests[id].val]

\* a load that loses the items of the manifest
load_manifest_NoItems(id) ==
    IF id \notin DOMAIN manifests \/ manifests[id].state = "absent"
    THEN [status |-> "NotFound", val |-> NoManifest]
    ELSE IF manifests[id].state = "corrupt"
    THEN [status |-> "InvalidData", val |-> NoManifest]
    ELSE [status |-> "Ok", val |-> [manifests[id].val EXCEPT !.items = <<>>]]

\* read_to_string + serde_json::from_str of a manifest file (recovery.rs
\* 121-123)
load_manifest(id) ==
    IF id \notin DOMAIN manifests \/ manifests[id].state = "absent"
    THEN [status |-> "NotFound", val |-> NoManifest]
    ELSE IF manifests[id].state = "corrupt"
    THEN [status |-> "InvalidData", val |-> NoManifest]
    ELSE [status |-> "Ok", val |-> manifests[id].val]

Contains(q, x) == \E i \in DOMAIN q : q[i] = x

NoRet == [op |-> "none", status |-> "none", val |-> <<>>]

NoLoc ==
    [m |-> NoManifest, op |-> "none", arg |-> 0, idx |-> <<>>, queue |-> <<>>,
     recs |-> <<>>, out |-> <<>>, t |-> 0, pre |-> <<>>]

\* the recovery root as a call finds it
Snapshot == [index |-> index, manifests |-> manifests, archives |-> archives]

\* a call begins: the process is between calls and its last result is taken
Call(p, op, arg, label) ==
    /\ pc[p] = "idle"
    /\ ret[p].status = "none"
    /\ pc' = [pc EXCEPT ![p] = label]
    /\ loc' = [loc EXCEPT ![p] = [NoLoc EXCEPT !.m = loc[p].m, !.op = op,
                                              !.arg = arg, !.pre = Snapshot]]

\* a call returns: its locals are dropped, the manifest the caller holds
\* stays with the caller
Finish(p, status, val, m) ==
    /\ pc' = [pc EXCEPT ![p] = "idle"]
    /\ ret' = [ret EXCEPT ![p] = [op |-> loc[p].op, status |-> status, val |-> val]]
    /\ loc' = [loc EXCEPT ![p] = [NoLoc EXCEPT !.m = m, !.pre = loc[p].pre,
                                              !.arg = loc[p].arg]]

Goto(p, label) == pc' = [pc EXCEPT ![p] = label]

\* ---- initialize (recovery.rs 65-82) ----
Initialize(p) ==
    /\ Call(p, "initialize", 0, "init_mkdir_manifests")
    /\ UNCHANGED <<toolVars, now, purged, root, index, manifests, archives, ret>>

\* create_dir_all(&manifests_dir) (recovery.rs 70)
InitMkdirManifests(p) ==
    /\ pc[p] = "init_mkdir_manifests"
    /\ root' = [root EXCEPT !.manifests_dir = TRUE]
    /\ Goto(p, "init_mkdir_archives")
    /\ UNCHANGED <<toolVars, now, purged, index, manifests, archives, loc, ret>>

\* create_dir_all(&archives_dir) (recovery.rs 71)
InitMkdirArchives(p) ==
    /\ pc[p] = "init_mkdir_archives"
    /\ root' = [root EXCEPT !.archives_dir = TRUE]
    /\ Goto(p, "init_exists")
    /\ UNCHANGED <<toolVars, now, purged, index, manifests, archives, loc, ret>>

\* an initialize that takes the index for missing whatever is there
InitIndexMissing_Always(p) == TRUE

\* if !index_file.exists() (recovery.rs 74)
InitIndexMissing(p) == index.state = "absent"

InitExists(p) ==
    /\ pc[p] = "init_exists"
    /\ IF InitIndexMissing(p)
       THEN Goto(p, "init_create") /\ UNCHANGED <<loc, ret>>
       ELSE Finish(p, "Ok", <<>>, loc[p].m)
    /\ UNCHANGED <<toolVars, now, purged, root, index, manifests, archives>>

\* std::fs::write(&index_file, ..) (recovery.rs 78): File::create
InitCreate(p) ==
    /\ pc[p] = "init_create"
    /\ index' = CreateFile(index)
    /\ Goto(p, "init_write")
    /\ UNCHANGED <<toolVars, now, purged, root, manifests, archives, loc, ret>>

\* std::fs::write(&index_file, ..) (recovery.rs 78): write_all
InitWrite(p) ==
    /\ pc[p] = "init_write"
    /\ index' = WriteAll(index, EmptyIndex, 0)
    /\ Finish(p, "Ok", <<>>, loc[p].m)
    /\ UNCHANGED <<toolVars, now, purged, root, manifests, archives>>

\* ---- create_manifest (recovery.rs 85-97) ----
CreateManifest(p, retention_days) ==
    /\ Call(p, "create_manifest", retention_days, "cm_id")
    /\ UNCHANGED <<toolVars, now, purged, root, index, manifests, archives, ret>>

\* let id = Utc::now().format(..) (recovery.rs 86)
CreateManifestId(p) ==
    /\ pc[p] = "cm_id"
    /\ loc' = [loc EXCEPT ![p].t = FormatId(now)]
    /\ Goto(p, "cm_timestamp")
    /\ UNCHANGED <<toolVars, now, purged, root, index, manifests, archives, ret>>

\* let timestamp = Utc::now() and the manifest built from it (recovery.rs
\* 87-96)
CreateManifestTimestamp(p) ==
    /\ pc[p] = "cm_timestamp"
    /\ LET m == [id |-> loc[p].t, timestamp |-> now, total_size |-> 0,
                 items |-> <<>>, retention_until |-> now + Days(loc[p].arg)]
       IN  Finish(p, "Ok", m, m)
    /\ UNCHANGED <<toolVars, now, purged, root, index, manifests, archives>>

\* ---- save_manifest (recovery.rs 100-113) and update_index (155-174) ----
SaveManifest(p) ==
    /\ loc[p].m # NoManifest
    /\ Call(p, "save_manifest", loc[p].m.id, "sm_create")
    /\ UNCHANGED <<toolVars, now, purged, root, index, manifests, archives, ret>>

\* std::fs::write(manifest_file, json)? (recovery.rs 107): File::create,
\* which fails when manifests/ does not exist
SaveCreate(p) ==
    /\ pc[p] = "sm_create"
    /\ IF root.manifests_dir
       THEN /\ manifests' = [manifests EXCEPT ![loc[p].m.id] = CreateFile(@)]
            /\ Goto(p, "sm_write")
            /\ UNCHANGED <<loc, ret>>
       ELSE /\ Finish(p, "NotFound", <<>>, loc[p].m)
            /\ UNCHANGED manifests
    /\ UNCHANGED <<toolVars, now, purged, root, index, archives>>

\* a save that goes on to the index without writing the manifest
SaveWrite_Skip(p) ==
    /\ pc[p] = "sm_write"
    /\ Goto(p, "ui_exists")
    /\ UNCHANGED <<toolVars, now, purged, root, index, manifests, archives, loc, ret>>

\* std::fs::write(manifest_file, json)? (recovery.rs 107): write_all
SaveWrite(p) ==
    /\ pc[p] = "sm_write"
    /\ manifests' = [manifests EXCEPT ![loc[p].m.id] =
                        WriteAll(@, loc[p].m, Len(loc[p].m.items))]
    /\ Goto(p, "ui_exists")
    /\ UNCHANGED <<toolVars, now, purged, root, index, archives, loc, ret>>

\* if index_file.exists() (recovery.rs 157)
UpdateIndexExists(p) ==
    /\ pc[p] = "ui_exists"
    /\ IF index.state # "absent"
       THEN Goto(p, "ui_read") /\ UNCHANGED loc
       ELSE /\ Goto(p, "ui_create")
            /\ loc' = [loc EXCEPT ![p].idx = <<loc[p].m.id>>]
    /\ UNCHANGED <<toolVars, now, purged, root, index, manifests, archives, ret>>

\* a push that does not look for the id
PushId_Always(ids, id) == Append(ids, id)

\* recovery.rs 168-170: the id is pushed unless the index has it
PushId(ids, id) == IF Contains(ids, id) THEN ids ELSE Append(ids, id)

\* read_to_string(&index_file)? and from_str(..).unwrap_or_else(empty)
\* (recovery.rs 158-161), then the push of 168-170
UpdateIndexRead(p) ==
    /\ pc[p] = "ui_read"
    /\ IF index.state = "absent"
       THEN Finish(p, "NotFound", <<>>, loc[p].m)
       ELSE /\ loc' = [loc EXCEPT ![p].idx =
                         PushId(IF index.state = "ok" THEN index.val ELSE EmptyIndex,
                                loc[p].m.id)]
            /\ Goto(p, "ui_create")
            /\ UNCHANGED ret
    /\ UNCHANGED <<toolVars, now, purged, root, index, manifests, archives>>

\* std::fs::write(index_file, ..)? (recovery.rs 172): File::create
UpdateIndexCreate(p) ==
    /\ pc[p] = "ui_create"
    /\ index' = CreateFile(index)
    /\ Goto(p, "ui_write")
    /\ UNCHANGED <<toolVars, now, purged, root, manifests, archives, loc, ret>>

\* std::fs::write(index_file, ..)? (recovery.rs 172): write_all
UpdateIndexWrite(p) ==
    /\ pc[p] = "ui_write"
    /\ index' = WriteAll(index, loc[p].idx, Len(loc[p].idx))
    /\ Finish(p, "Ok", <<>>, loc[p].m)
    /\ UNCHANGED <<toolVars, now, purged, root, manifests, archives>>

\* ---- load_manifest (recovery.rs 116-124) ----
LoadManifest(p, id) ==
    /\ Call(p, "load_manifest", id, "lm_read")
    /\ UNCHANGED <<toolVars, now, purged, root, index, manifests, archives, ret>>

LoadManifestRead(p) ==
    /\ pc[p] = "lm_read"
    /\ Finish(p, load_manifest(loc[p].arg).status, load_manifest(loc[p].arg).val, loc[p].m)
    /\ UNCHANGED <<toolVars, now, purged, root, index, manifests, archives>>

\* ---- list_recoveries (recovery.rs 127-147) ----
\* recoveries.sort_by(|a, b| b.timestamp.cmp(&a.timestamp)) (recovery.rs
\* 144): a stable sort, newest first
RECURSIVE InsertNewestFirst(_, _)
InsertNewestFirst(sorted, m) ==
    IF sorted = <<>> THEN <<m>>
    ELSE IF Head(sorted).timestamp >= m.timestamp
    THEN <<Head(sorted)>> \o InsertNewestFirst(Tail(sorted), m)
    ELSE <<m>> \o sorted

\* a listing that keeps the order of the index
SortNewestFirst_IndexOrder(recs) == recs

RECURSIVE SortNewestFirst(_)
SortNewestFirst(recs) ==
    IF recs = <<>> THEN <<>>
    ELSE InsertNewestFirst(SortNewestFirst(SubSeq(recs, 1, Len(recs) - 1)), recs[Len(recs)])

ListRecoveries(p) ==
    /\ Call(p, "list_recoveries", 0, "lr_exists")
    /\ UNCHANGED <<toolVars, now, purged, root, index, manifests, archives, ret>>

\* if !index_file.exists() { return Ok(Vec::new()) } (recovery.rs 129-131)
ListExists(p) ==
    /\ pc[p] = "lr_exists"
    /\ IF index.state = "absent"
       THEN Goto(p, "lr_sort") /\ UNCHANGED loc
       ELSE Goto(p, "lr_read") /\ UNCHANGED loc
    /\ UNCHANGED <<toolVars, now, purged, root, index, manifests, archives, ret>>

\* read_to_string(index_file)? and from_str(&content)? (recovery.rs 133-134)
ListRead(p) ==
    /\ pc[p] = "lr_read"
    /\ IF index.state = "ok"
       THEN /\ loc' = [loc EXCEPT ![p].queue = index.val]
            /\ Goto(p, "lr_load")
            /\ UNCHANGED ret
       ELSE Finish(p, IF index.state = "absent" THEN "NotFound" ELSE "InvalidData",
                   <<>>, loc[p].m)
    /\ UNCHANGED <<toolVars, now, purged, root, index, manifests, archives>>

\* a loop that gives up the listing at the first manifest that does not load
ListLoad_Strict(p) ==
    /\ pc[p] = "lr_load"
    /\ IF loc[p].queue = <<>>
       THEN Goto(p, "lr_sort") /\ UNCHANGED <<loc, ret>>
       ELSE LET r == load_manifest(Head(loc[p].queue))
            IN  IF r.status = "Ok"
                THEN /\ loc' = [loc EXCEPT ![p].queue = Tail(@), ![p].recs = Append(@, r.val)]
                     /\ UNCHANGED <<pc, ret>>
                ELSE Finish(p, r.status, <<>>, loc[p].m)
    /\ UNCHANGED <<toolVars, now, purged, root, index, manifests, archives>>

\* one turn of the loop of recovery.rs 137-141
ListLoad(p) ==
    /\ pc[p] = "lr_load"
    /\ IF loc[p].queue = <<>>
       THEN Goto(p, "lr_sort") /\ UNCHANGED loc
       ELSE LET r == load_manifest(Head(loc[p].queue))
            IN  /\ loc' = [loc EXCEPT ![p].queue = Tail(@),
                                       ![p].recs = IF r.status = "Ok"
                                                   THEN Append(@, r.val) ELSE @]
                /\ UNCHANGED pc
    /\ UNCHANGED <<toolVars, now, purged, root, index, manifests, archives, ret>>

\* the sort and the return of recovery.rs 144-146; cleanup_expired goes
\* on with what list_recoveries returned (recovery.rs 178)
ListSort(p) ==
    /\ pc[p] = "lr_sort"
    /\ IF loc[p].op = "cleanup_expired"
       THEN /\ loc' = [loc EXCEPT ![p].recs = SortNewestFirst(@)]
            /\ Goto(p, "ce_now")
            /\ UNCHANGED ret
       ELSE Finish(p, "Ok", SortNewestFirst(loc[p].recs), loc[p].m)
    /\ UNCHANGED <<toolVars, now, purged, root, index, manifests, archives>>

\* ---- cleanup_expired (recovery.rs 177-211) ----
CleanupExpired(p) ==
    /\ Call(p, "cleanup_expired", 0, "lr_exists")
    /\ UNCHANGED <<toolVars, now, purged, root, index, manifests, archives, ret>>

\* let now = Utc::now() (recovery.rs 179)
CleanupNow(p) ==
    /\ pc[p] = "ce_now"
    /\ loc' = [loc EXCEPT ![p].t = now]
    /\ Goto(p, "ce_loop")
    /\ UNCHANGED <<toolVars, now, purged, root, index, manifests, archives, ret>>

\* an expiry test that takes the instant of expiry for expired
IsExpired_AtExpiry(m, t) == m.retention_until <= t

\* if manifest.retention_until < now (recovery.rs 183)
IsExpired(m, t) == m.retention_until < t

\* the head of the loop of recovery.rs 182-199 and the test after it (202)
CleanupLoop(p) ==
    /\ pc[p] = "ce_loop"
    /\ IF loc[p].recs = <<>>
       THEN IF loc[p].out = <<>>
            THEN Finish(p, "Ok", <<>>, loc[p].m)
            ELSE Goto(p, "ce_read") /\ UNCHANGED <<loc, ret>>
       ELSE IF IsExpired(Head(loc[p].recs), loc[p].t)
            THEN Goto(p, "ce_rm_archive") /\ UNCHANGED <<loc, ret>>
            ELSE /\ loc' = [loc EXCEPT ![p].recs = Tail(@)]
                 /\ UNCHANGED <<pc, ret>>
    /\ UNCHANGED <<toolVars, now, purged, root, index, manifests, archives>>

\* if archive_dir.exists() { remove_dir_all(&archive_dir)? } (recovery.rs
\* 184-187)
CleanupRemoveArchive(p) ==
    /\ pc[p] = "ce_rm_archive"
    /\ archives' = [archives EXCEPT ![Head(loc[p].recs).id] = NoArchive]
    /\ Goto(p, "ce_rm_manifest")
    /\ UNCHANGED <<toolVars, now, purged, root, index, manifests, loc, ret>>

\* if manifest_file.exists() { remove_file(manifest_file)? } and
\* cleaned.push(manifest.id) (recovery.rs 189-197)
CleanupRemoveManifest(p) ==
    /\ pc[p] = "ce_rm_manifest"
    /\ manifests' = [manifests EXCEPT ![Head(loc[p].recs).id] = AbsentFile]
    /\ loc' = [loc EXCEPT ![p].out = Append(@, Head(loc[p].recs).id),
                          ![p].recs = Tail(@)]
    /\ purged' = purged \cup {Head(loc[p].recs).id}
    /\ Goto(p, "ce_loop")
    /\ UNCHANGED <<toolVars, now, root, index, archives, ret>>

\* a retain that drops nothing from the index
Retain_KeepAll(ids, cleaned_ids) == ids

\* index.recoveries.retain(|id| !cleaned.contains(id)) (recovery.rs 206)
Retain(ids, cleaned_ids) == SelectSeq(ids, LAMBDA id : ~Contains(cleaned_ids, id))

\* read_to_string(&index_file)?, from_str(&content)? and the retain of
\* recovery.rs 204-206
CleanupRead(p) ==
    /\ pc[p] = "ce_read"
    /\ IF index.state = "ok"
       THEN /\ loc' = [loc EXCEPT ![p].idx = Retain(index.val, loc[p].out)]
            /\ Goto(p, "ce_create")
            /\ UNCHANGED ret
       ELSE Finish(p, IF index.state = "absent" THEN "NotFound" ELSE "InvalidData",
                   <<>>, loc[p].m)
    /\ UNCHANGED <<toolVars, now, purged, root, index, manifests, archives>>

\* std::fs::write(index_file, ..)? (recovery.rs 207): File::create
CleanupCreate(p) ==
    /\ pc[p] = "ce_create"
    /\ index' = CreateFile(index)
    /\ Goto(p, "ce_write")
    /\ UNCHANGED <<toolVars, now, purged, root, manifests, archives, loc, ret>>

\* std::fs::write(index_file, ..)? (recovery.rs 207): write_all, and
\* Ok(cleaned) (recovery.rs 210)
CleanupWrite(p) ==
    /\ pc[p] = "ce_write"
    /\ index' = WriteAll(index, loc[p].idx, Len(loc[p].idx))
    /\ Finish(p, "Ok", loc[p].out, loc[p].m)
    /\ UNCHANGED <<toolVars, now, purged, root, manifests, archives>>

\* ---- the calls of std::fs that fail: each `?` returns the error ----
\* write_all of the manifest file fails (recovery.rs 107): the file that
\* File::create made stays as it is
SaveWriteFails(p) ==
    /\ pc[p] = "sm_write"
    /\ Finish(p, "Io", <<>>, loc[p].m)
    /\ UNCHANGED <<toolVars, now, purged, root, index, manifests, archives>>

\* write_all of the index fails in update_index (recovery.rs 172)
UpdateIndexWriteFails(p) ==
    /\ pc[p] = "ui_write"
    /\ Finish(p, "Io", <<>>, loc[p].m)
    /\ UNCHANGED <<toolVars, now, purged, root, index, manifests, archives>>

\* remove_dir_all(&archive_dir)? fails (recovery.rs 185-187)
CleanupRemoveArchiveFails(p) ==
    /\ pc[p] = "ce_rm_archive"
    /\ archives[Head(loc[p].recs).id].exists
    /\ Finish(p, "Io", <<>>, loc[p].m)
    /\ UNCHANGED <<toolVars, now, purged, root, index, manifests, archives>>

\* remove_file(manifest_file)? fails (recovery.rs 193-195)
CleanupRemoveManifestFails(p) ==
    /\ pc[p] = "ce_rm_manifest"
    /\ manifests[Head(loc[p].recs).id].state # "absent"
    /\ Finish(p, "Io", <<>>, loc[p].m)
    /\ UNCHANGED <<toolVars, now, purged, root, index, manifests, archives>>

\* write_all of the index fails in cleanup_expired (recovery.rs 207)
CleanupWriteFails(p) ==
    /\ pc[p] = "ce_write"
    /\ Finish(p, "Io", <<>>, loc[p].m)
    /\ UNCHANGED <<toolVars, now, purged, root, index, manifests, archives>>

(***************************************************************************)
(* ArchiveOperator: archive and restore_recovery.  The command handlers    *)
(* call restore_recovery (recover.rs 85, 100); the two operations follow   *)
(* section 4.4 of the specification.                                       *)
(***************************************************************************)
\* the SHA-256 checksum of a RecoveryItem
Checksum(bytes) == <<"sha256", Fold(7, 0, bytes)>>

\* archives/<manifest.id>/ followed by the path of the file below the root
ArchivePath(id, original_path) == <<"archives", id>> \o Tail(original_path)

\* the archived copy an archive_path names
ArchivedCopy(archive_path) ==
    IF archives[archive_path[2]].exists
    THEN archives[archive_path[2]].files[SubSeq(archive_path, 3, Len(archive_path))]
    ELSE NoEntry

NewRecoveryItem(id, path, bytes) ==
    [original_path |-> path, archive_path |-> ArchivePath(id, path),
     size |-> Len(bytes), checksum |-> Checksum(bytes),
     category |-> "cache", source |-> "dragonfly", can_regenerate |-> TRUE]

\* archive(file, manifest): the file moves into archives/<manifest.id>/ and
\* the manifest the caller holds takes its RecoveryItem; where the move
\* cannot be made (no archives/, or the place in the archive is taken) the
\* call fails and the original stays
Archive(p, path) ==
    /\ pc[p] = "idle"
    /\ ret[p].status = "none"
    /\ loc[p].m # NoManifest
    /\ Len(loc[p].m.items) < MaxItems
    /\ fs[Parent(path)].exists
    /\ fs[Parent(path)].entries[Leaf(path)].kind = "file"
    /\ LET bytes == fs[Parent(path)].entries[Leaf(path)].content
           item == NewRecoveryItem(loc[p].m.id, path, bytes)
           m == [loc[p].m EXCEPT !.items = Append(@, item),
                                 !.total_size = @ + item.size]
       IN  IF root.archives_dir /\ ArchivedCopy(item.archive_path).kind = "none"
           THEN /\ archives' = [archives EXCEPT ![m.id] =
                       [exists |-> TRUE,
                        files |-> [@.files EXCEPT ![Tail(path)] = FileOf(bytes)]]]
                /\ fs' = [fs EXCEPT ![Parent(path)].entries[Leaf(path)] = NoEntry]
                /\ loc' = [loc EXCEPT ![p] = [NoLoc EXCEPT !.m = m, !.pre = Snapshot]]
                /\ ret' = [ret EXCEPT ![p] = [op |-> "archive", status |-> "Ok", val |-> item]]
           ELSE /\ ret' = [ret EXCEPT ![p] = [op |-> "archive", status |-> "Io", val |-> <<>>]]
                /\ UNCHANGED <<archives, fs, loc>>
    /\ UNCHANGED <<home, scan, cleaned, now, purged, root, index, manifests, pc>>

RestoreRecovery(p, id) ==
    /\ Call(p, "restore_recovery", id, "rs_load")
    /\ UNCHANGED <<toolVars, now, purged, root, index, manifests, archives, ret>>

\* restore loads the manifest and fails as a whole only if it cannot
RestoreLoad(p) ==
    /\ pc[p] = "rs_load"
    /\ LET r == load_manifest(loc[p].arg)
       IN  IF r.status = "Ok"
           THEN /\ loc' = [loc EXCEPT ![p].queue = r.val.items, ![p].out = <<0, 0>>]
                /\ Goto(p, "rs_item")
                /\ UNCHANGED ret
           ELSE Finish(p, r.status, <<>>, loc[p].m)
    /\ UNCHANGED <<toolVars, now, purged, root, index, manifests, archives>>

\* one item: the archived copy moves back to original_path when its
\* checksum matches; otherwise the item is skipped
RestoreItem(p) ==
    /\ pc[p] = "rs_item"
    /\ IF loc[p].queue = <<>>
       THEN /\ Finish(p, "Ok", loc[p].out, loc[p].m)
            /\ UNCHANGED <<fs, archives>>
       ELSE LET item == Head(loc[p].queue)
                copy == ArchivedCopy(item.archive_path)
                dir == Parent(item.original_path)
            IN  IF /\ copy.kind = "file"
                   /\ Checksum(copy.content) = item.checksum
                   /\ fs[dir].exists
                THEN /\ fs' = [fs EXCEPT ![dir].entries[Leaf(item.original_path)] = copy]
                     /\ archives' = [archives EXCEPT
                            ![item.archive_path[2]].files[Tail(item.original_path)] = NoEntry]
                     /\ loc' = [loc EXCEPT ![p].queue = Tail(@),
                                           ![p].out = <<@[1] + 1, @[2] + item.size>>]
                     /\ UNCHANGED <<pc, ret>>
                ELSE /\ loc' = [loc EXCEPT ![p].queue = Tail(@)]
                     /\ UNCHANGED <<fs, archives, pc, ret>>
    /\ UNCHANGED <<home, scan, cleaned, now, purged, root, index, manifests>>

(***************************************************************************)
(* The environment: other programs create and remove directories and       *)
(* entries while no call is under way, and the caller of a call takes its  *)
(* result.                                                                 *)
(***************************************************************************)
Idle ==
    /\ scan.status = "none"
    /\ cleaned.status = "none"
    /\ \A p \in Procs : ret[p].status = "none"

\* no call is under way and no result is outstanding
Quiet == Idle /\ \A p \in Procs : pc[p] = "idle"

EnvMkdir(dir) ==
    /\ Quiet
    /\ ~fs[dir].exists
    /\ fs' = [fs EXCEPT ![dir] = EmptyDir]
    /\ UNCHANGED <<home, scan, cleaned, storeVars>>

EnvRmdir(dir) ==
    /\ Quiet
    /\ fs[dir].exists
    /\ fs' = [fs EXCEPT ![dir] = AbsentDir]
    /\ UNCHANGED <<home, scan, cleaned, storeVars>>

EnvWrite(dir, n, entry) ==
    /\ Quiet
    /\ fs[dir].exists
    /\ fs[dir].entries[n] # entry
    /\ fs' = [fs EXCEPT ![dir].entries[n] = entry]
    /\ UNCHANGED <<home, scan, cleaned, storeVars>>

\* a manifest file is removed from manifests/ by another program
EnvRemoveManifest(id) ==
    /\ Quiet
    /\ manifests[id].state # "absent"
    /\ manifests' = [manifests EXCEPT ![id] = AbsentFile]
    /\ UNCHANGED <<toolVars, now, purged, root, index, archives, pc, loc, ret>>

\* a manifest file is left cut short, as by a writer that stopped between
\* File::create and write_all
EnvDamageManifest(id) ==
    /\ Quiet
    /\ manifests[id].state = "ok"
    /\ manifests' = [manifests EXCEPT ![id] = Truncated]
    /\ UNCHANGED <<toolVars, now, purged, root, index, archives, pc, loc, ret>>

\* index.json is left cut short in the same way
EnvDamageIndex ==
    /\ Quiet
    /\ index.state = "ok"
    /\ index' = Truncated
    /\ UNCHANGED <<toolVars, now, purged, root, manifests, archives, pc, loc, ret>>

\* the command handler is done with the result of its call
Return ==
    /\ scan.status # "none" \/ cleaned.status # "none"
    /\ scan' = NoScan
    /\ cleaned' = NoClean
    /\ UNCHANGED <<fs, home, storeVars>>

\* the caller of a RecoveryManager call is done with what it returned
Taken(p) ==
    /\ ret[p].status # "none"
    /\ ret' = [ret EXCEPT ![p] = NoRet]
    /\ loc' = [loc EXCEPT ![p] = [NoLoc EXCEPT !.m = loc[p].m]]
    /\ UNCHANGED <<toolVars, now, purged, root, index, manifests, archives, pc>>

\* the steps that read the clock
ClockReads == {"cm_id", "cm_timestamp", "ce_now"}

\* time passes; an instant matters where a call is about to read the clock
\* or no call is under way
Tick ==
    /\ \/ \E p \in Procs : pc[p] \in ClockReads
       \/ Quiet
    /\ now < MaxTime
    /\ now' = now + 1
    /\ UNCHANGED <<toolVars, root, index, manifests, archives, pc, loc, ret, purged>>

\* the directory whose files the cleanup runs archive
StoreDir == <<"/", "tmp">>

\* the names of the files the environment puts there
ArchiveNames == {"a", "b"}

\* the one file the environment puts there while the clock runs
StoreFile == FileOf([i \in 1..MaxLen |-> 0])

\* where the environment puts entries below the cleaner's roots
CleanSlots ==
    {<<HomeDir \o <<"Library", "Caches">>, "a">>,
     <<<<"/", "tmp">>, "a">>, <<<<"/", "tmp">>, "b">>}

Init ==
    /\ fs = [d \in Dirs |-> AbsentDir]
    /\ home \in {<<>>, HomeDir}
    /\ scan = NoScan
    /\ cleaned = NoClean
    /\ now = 0
    /\ root = [manifests_dir |-> FALSE, archives_dir |-> FALSE]
    /\ index = AbsentFile
    /\ manifests = [id \in Ids |-> AbsentFile]
    /\ archives = [id \in Ids |-> NoArchive]
    /\ pc = [p \in Procs |-> "idle"]
    /\ loc = [p \in Procs |-> NoLoc]
    /\ ret = [p \in Procs |-> NoRet]
    /\ purged = {}

(***************************************************************************)
(* SpecDup: find_duplicates over every tree below the scanned root.        *)
(***************************************************************************)
InitDup == Init /\ home = HomeDir

NextDup ==
    \/ EnvMkdir(ScanRoot)
    \/ EnvRmdir(ScanRoot)
    \/ \E n \in Names, e \in Entries : EnvWrite(ScanRoot, n, e)
    \/ \E alg \in Algorithms, m \in 0..MaxMinSize : FindDuplicatesNotFound(alg, ScanRoot, m)
    \/ \E alg \in Algorithms, m \in 0..MaxMinSize : FindDuplicatesIoError(alg, ScanRoot, m)
    \/ \E alg \in Algorithms, m \in 0..MaxMinSize : FindDuplicatesOk(alg, ScanRoot, m)
    \/ Return

SpecDup == InitDup /\ [][NextDup]_vars

(***************************************************************************)
(* SpecClean: SystemCleaner::clean over the trees below its roots.         *)
(***************************************************************************)
NextClean ==
    \/ \E s \in CleanSlots : EnvMkdir(s[1])
    \/ \E s \in CleanSlots : EnvRmdir(s[1])
    \/ \E s \in CleanSlots, e \in Entries : EnvWrite(s[1], s[2], e)
    \/ \E t \in Targets, dry_run \in BOOLEAN : Clean(t, dry_run)
    \/ Return

SpecClean == Init /\ [][NextClean]_vars

(***************************************************************************)
(* The calls of RecoveryManager, each with the steps inside it.            *)
(***************************************************************************)
InitializeSteps(p) ==
    \/ Initialize(p)
    \/ InitMkdirManifests(p)
    \/ InitMkdirArchives(p)
    \/ InitExists(p)
    \/ InitCreate(p)
    \/ InitWrite(p)

CreateManifestSteps(p, days) ==
    \/ \E d \in days : CreateManifest(p, d)
    \/ CreateManifestId(p)
    \/ CreateManifestTimestamp(p)

SaveManifestSteps(p) ==
    \/ SaveManifest(p)
    \/ SaveCreate(p)
    \/ SaveWrite(p)
    \/ UpdateIndexExists(p)
    \/ UpdateIndexRead(p)
    \/ UpdateIndexCreate(p)
    \/ UpdateIndexWrite(p)

LoadManifestSteps(p) ==
    \/ \E id \in Ids : LoadManifest(p, id)
    \/ LoadManifestRead(p)

ListRecoveriesSteps(p) ==
    \/ ListRecoveries(p)
    \/ ListExists(p)
    \/ ListRead(p)
    \/ ListLoad(p)
    \/ ListSort(p)

CleanupExpiredSteps(p) ==
    \/ CleanupExpired(p)
    \/ CleanupNow(p)
    \/ CleanupLoop(p)
    \/ CleanupRemoveArchive(p)
    \/ CleanupRemoveManifest(p)
    \/ CleanupRead(p)
    \/ CleanupCreate(p)
    \/ CleanupWrite(p)

RestoreRecoverySteps(p) ==
    \/ \E id \in Ids : RestoreRecovery(p, id)
    \/ RestoreLoad(p)
    \/ RestoreItem(p)

\* the recovery root is not set up; /tmp is there
InitStore ==
    /\ fs = [d \in Dirs |-> IF d = StoreDir THEN EmptyDir ELSE AbsentDir]
    /\ home = HomeDir
    /\ scan = NoScan
    /\ cleaned = NoClean
    /\ now = 0
    /\ root = [manifests_dir |-> FALSE, archives_dir |-> FALSE]
    /\ index = AbsentFile
    /\ manifests = [id \in Ids |-> AbsentFile]
    /\ archives = [id \in Ids |-> NoArchive]
    /\ pc = [p \in Procs |-> "idle"]
    /\ loc = [p \in Procs |-> NoLoc]
    /\ ret = [p \in Procs |-> NoRet]
    /\ purged = {}

(***************************************************************************)
(* SpecStore: one user of the recovery root, the clock running: manifests  *)
(* are created, filled, saved, listed, loaded and purged.                  *)
(***************************************************************************)
NextStore ==
    \/ \E p \in {1} :
        \/ InitializeSteps(p)
        \/ CreateManifestSteps(p, {0, MaxRetention})
        \/ Archive(p, StoreDir \o <<"a">>)
        \/ SaveManifestSteps(p)
        \/ LoadManifestSteps(p)
        \/ ListRecoveriesSteps(p)
        \/ CleanupExpiredSteps(p)
        \/ Taken(p)
    \/ Tick
    \/ EnvWrite(StoreDir, "a", StoreFile)

SpecStore == InitStore /\ [][NextStore]_vars

(***************************************************************************)
(* SpecArchive: one user archives a file of any content and a second file  *)
(* into a manifest, saves it and restores it, within one instant of the    *)
(* clock.                                                                  *)
(***************************************************************************)
NextArchive ==
    \/ \E p \in {1} :
        \/ InitializeSteps(p)
        \/ CreateManifestSteps(p, {0})
        \/ \E n \in ArchiveNames : Archive(p, StoreDir \o <<n>>)
        \/ SaveManifestSteps(p)
        \/ LoadManifestSteps(p)
        \/ RestoreRecoverySteps(p)
        \/ Taken(p)
    \/ \E c \in Contents : EnvWrite(StoreDir, "a", FileOf(c))
    \/ EnvWrite(StoreDir, "b", StoreFile)

SpecArchive == InitStore /\ [][NextArchive]_vars

(***************************************************************************)
(* SpecDamage: one user saves and lists manifests on a recovery root whose *)
(* files other programs remove or leave cut short.                         *)
(***************************************************************************)
NextDamage ==
    \/ \E p \in {1} :
        \/ InitializeSteps(p)
        \/ CreateManifestSteps(p, {0})
        \/ SaveManifestSteps(p)
        \/ ListRecoveriesSteps(p)
        \/ Taken(p)
    \/ Tick
    \/ \E id \in Ids : EnvRemoveManifest(id)
    \/ \E id \in Ids : EnvDamageManifest(id)
    \/ EnvDamageIndex

SpecDamage == InitStore /\ [][NextDamage]_vars

(***************************************************************************)
(* SpecFaults: one user saves and purges manifests while calls of std::fs  *)
(* may fail.                                                               *)
(***************************************************************************)
SaveManifestFaults(p) ==
    \/ SaveWriteFails(p)
    \/ UpdateIndexWriteFails(p)

CleanupExpiredFaults(p) ==
    \/ CleanupRemoveArchiveFails(p)
    \/ CleanupRemoveManifestFails(p)
    \/ CleanupWriteFails(p)

NextFaults ==
    \/ \E p \in {1} :
        \/ InitializeSteps(p)
        \/ CreateManifestSteps(p, {0})
        \/ Archive(p, StoreDir \o <<"a">>)
        \/ SaveManifestSteps(p)
        \/ SaveManifestFaults(p)
        \/ ListRecoveriesSteps(p)
        \/ CleanupExpiredSteps(p)
        \/ CleanupExpiredFaults(p)
        \/ Taken(p)
    \/ Tick
    \/ EnvWrite(StoreDir, "a", StoreFile)

SpecFaults == InitStore /\ [][NextFaults]_vars

(***************************************************************************)
(* SpecConc: two users of the same recovery root, their calls interleaved  *)
(* one file-system operation at a time, within one instant of the clock.   *)
(***************************************************************************)
NextConc ==
    \E p \in Procs :
        \/ InitializeSteps(p)
        \/ CreateManifestSteps(p, {0})
        \/ SaveManifestSteps(p)
        \/ Taken(p)

SpecConc == InitStore /\ [][NextConc]_vars


(***************************************************************************)
(* SpecSavers and SpecPurge: two users of a recovery root that initialize  *)
(* has set up, their calls interleaved one file-system operation at a      *)
(* time, the clock running.                                                *)
(***************************************************************************)
\* the recovery root after initialize (recovery.rs 65-82)
InitReady ==
    /\ fs = [d \in Dirs |-> IF d = StoreDir THEN EmptyDir ELSE AbsentDir]
    /\ home = HomeDir
    /\ scan = NoScan
    /\ cleaned = NoClean
    /\ now = 0
    /\ root = [manifests_dir |-> TRUE, archives_dir |-> TRUE]
    /\ index = IndexText(EmptyIndex)
    /\ manifests = [id \in Ids |-> AbsentFile]
    /\ archives = [id \in Ids |-> NoArchive]
    /\ pc = [p \in Procs |-> "idle"]
    /\ loc = [p \in Procs |-> NoLoc]
    /\ ret = [p \in Procs |-> NoRet]
    /\ purged = {}

\* time passes where a call is about to read the clock
TickAtRead ==
    /\ \E p \in Procs : pc[p] \in ClockReads
    /\ Tick

\* SpecSavers: each of two users creates a manifest and saves it, again
\* and again
NextSavers ==
    \/ \E p \in Procs :
        \/ loc[p].m = NoManifest /\ CreateManifestSteps(p, {0})
        \/ SaveManifestSteps(p)
        \/ Taken(p)
    \/ TickAtRead

SpecSavers == InitReady /\ [][NextSavers]_vars

\* SpecPurge: one user creates and saves manifests while the other purges
\* the expired ones
NextPurge ==
    \/ \E p \in {1} :
        \/ CreateManifestSteps(p, {0})
        \/ SaveManifestSteps(p)
        \/ Taken(p)
    \/ \E p \in {2} :
        \/ ListExists(p)
        \/ ListRead(p)
        \/ ListLoad(p)
        \/ ListSort(p)
        \/ CleanupExpiredSteps(p)
        \/ Taken(p)
    \/ TickAtRead

SpecPurge == InitReady /\ [][NextPurge]_vars

(***************************************************************************)
(* Properties of SystemCleaner (SpecClean).                                *)
(***************************************************************************)
\* the entry a path names
EntryAt(path) == fs[Parent(path)].entries[Leaf(path)]

\* some archive holds a copy of the file that was at path
InArchive(path) ==
    \E id \in Ids : archives[id].exists /\ archives[id].files[Tail(path)].kind = "file"

\* C1: after a live clean (dry_run = false), every file the call counted in
\* files_cleaned is still a file at its original path or has a copy under
\* archives/<id>/.
C1_ArchiveBeforeDelete ==
    (cleaned.status = "Ok" /\ ~cleaned.dry_run) =>
        \A i \in DOMAIN cleaned.files_found :
            \/ EntryAt(cleaned.files_found[i]).kind = "file"
            \/ InArchive(cleaned.files_found[i])

\* C3: a clean with dry_run = true, whatever its target and its outcome,
\* leaves every directory and every file below every root as it found them;
\* what it reports is the number of the files it enumerated and the sum of
\* their sizes.
C3_DryRunFrame ==
    (cleaned.status # "none" /\ cleaned.dry_run) =>
        /\ fs = cleaned.before
        /\ cleaned.files_cleaned = Len(cleaned.files_found)
        /\ cleaned.bytes_freed =
               SumSeq([i \in DOMAIN cleaned.files_found |->
                          Len(EntryAt(cleaned.files_found[i]).content)])
        /\ \A i \in DOMAIN cleaned.files_found :
               EntryAt(cleaned.files_found[i]).kind = "file"

\* a dry run that found files of a size to sum
C3_Witness ==
    /\ cleaned.status = "Ok"
    /\ cleaned.dry_run
    /\ cleaned.files_cleaned >= 2
    /\ cleaned.bytes_freed >= 1

(***************************************************************************)
(* Properties of DuplicateDetector (SpecDup).                              *)
(***************************************************************************)
\* the names below the scanned root that the walk delivered and that are
\* regular files of at least min_size
Eligible ==
    {n \in scan.walked :
        /\ fs[scan.path].entries[n].kind = "file"
        /\ Len(fs[scan.path].entries[n].content) >= scan.min_size}

\* the file named n is a member of the i-th returned group
InGroup(n, i) ==
    \E j \in DOMAIN scan.duplicates[i] : scan.duplicates[i][j].path = scan.path \o <<n>>

SameContent(n, m) == fs[scan.path].entries[n].content = fs[scan.path].entries[m].content

\* C8: in the result of a find_duplicates that returned Ok, two walked
\* regular files of at least min_size with the same bytes are members of one
\* common group, no file is a member of two groups or twice of one, the
\* members of a group all have the same bytes, and a file whose bytes no
\* other such file has is a member of no group.
C8_GroupsByContent ==
    scan.status = "Ok" =>
        /\ \A n, m \in Eligible :
               (n # m /\ SameContent(n, m)) =>
                   \E i \in DOMAIN scan.duplicates : InGroup(n, i) /\ InGroup(m, i)
        /\ \A n \in Eligible :
               /\ Cardinality({i \in DOMAIN scan.duplicates : InGroup(n, i)}) <= 1
               /\ \A i \in DOMAIN scan.duplicates :
                      Cardinality({j \in DOMAIN scan.duplicates[i] :
                          scan.duplicates[i][j].path = scan.path \o <<n>>}) <= 1
        /\ \A i \in DOMAIN scan.duplicates : \A j, k \in DOMAIN scan.duplicates[i] :
               ReadFile(scan.duplicates[i][j].path) = ReadFile(scan.duplicates[i][k].path)
        /\ \A n \in Eligible :
               (\A m \in Eligible \ {n} : ~SameContent(n, m)) =>
                   \A i \in DOMAIN scan.duplicates : ~InGroup(n, i)

\* two files with the same bytes were grouped while a third of the same size
\* and other bytes stayed out of every group
C8_Witness ==
    /\ scan.status = "Ok"
    /\ \E n, m, u \in Eligible :
           /\ n # m
           /\ SameContent(n, m)
           /\ ~SameContent(n, u)
           /\ Len(fs[scan.path].entries[u].content) = Len(fs[scan.path].entries[n].content)
           /\ \E i \in DOMAIN scan.duplicates : InGroup(n, i) /\ InGroup(m, i)
           /\ \A i \in DOMAIN scan.duplicates : ~InGroup(u, i)

\* C9: the potential_savings of an Ok result is the sum over the returned
\* groups of the members' sizes less the first member's size; it is
\* calculate_savings of the returned groups; it is 0 without groups; and
\* where every group's members have one size S it is the sum of (N-1)*S.
C9_Savings ==
    scan.status = "Ok" =>
        LET d == scan.duplicates
        IN  /\ scan.potential_savings =
                   SumSeq([i \in DOMAIN d |->
                       SumSeq([j \in DOMAIN d[i] |-> d[i][j].size]) - d[i][1].size])
            /\ scan.potential_savings = calculate_savings(d)
            /\ d = <<>> => scan.potential_savings = 0
            /\ (\A i \in DOMAIN d : \A j \in DOMAIN d[i] : d[i][j].size = d[i][1].size) =>
                   scan.potential_savings =
                       SumSeq([i \in DOMAIN d |-> (Len(d[i]) - 1) * d[i][1].size])

\* a group of three files of one byte each saves two bytes
C9_Witness ==
    /\ scan.status = "Ok"
    /\ \E i \in DOMAIN scan.duplicates :
           /\ Len(scan.duplicates[i]) = 3
           /\ scan.duplicates[i][1].size = 1
    /\ scan.potential_savings = 2

\* C10: find_duplicates on a root that does not exist returns NotFound, and
\* has walked no entry and hashed no file.
C10_MissingRoot ==
    (scan.status # "none" /\ ~fs[scan.path].exists) =>
        /\ scan.status = "NotFound"
        /\ scan.walked = {}
        /\ scan.files = <<>>
        /\ scan.hashed = 0

\* the call on the missing root has returned
C10_Witness ==
    /\ scan.status = "NotFound"
    /\ ~fs[scan.path].exists


(***************************************************************************)
(* Properties of RecoveryManager with one user (SpecStore).                *)
(***************************************************************************)
NoDup(q) == \A i, j \in DOMAIN q : i # j => q[i] # q[j]

Count(q, x) == Cardinality({i \in DOMAIN q : q[i] = x})

\* the index file lists id
Indexed(file, id) == file.state = "ok" /\ Contains(file.val, id)

\* C4: while cleanup_expired runs and when it has returned, a manifest that
\* was saved when the call began and whose retention_until is not before
\* the current time still has its manifest file, its archive directory and
\* its index entry as they were; whatever the call removed belonged to a
\* manifest with retention_until < now; and after it returned Ok none of the
\* ids it reports is in the index or can be loaded, so list_recoveries
\* returns none of them.
C4_CleanupOnlyExpired ==
    \A p \in Procs :
        (loc[p].op = "cleanup_expired" \/ ret[p].op = "cleanup_expired") =>
            LET pre == loc[p].pre
                Kept(id) ==
                    /\ manifests[id] = pre.manifests[id]
                    /\ archives[id] = pre.archives[id]
                    /\ Indexed(pre.index, id) => (index.state = "ok" => Indexed(index, id))
            IN  /\ \A id \in Ids :
                       (/\ pre.manifests[id].state = "ok"
                        /\ pre.manifests[id].val.retention_until >= now) => Kept(id)
                /\ \A id \in Ids :
                       ~Kept(id) =>
                           /\ pre.manifests[id].state = "ok"
                           /\ pre.manifests[id].val.retention_until < now
                /\ ret[p].status = "Ok" =>
                       /\ ret[p].val # <<>> => index.state = "ok"
                       /\ \A i \in DOMAIN ret[p].val :
                              /\ ~Indexed(index, ret[p].val[i])
                              /\ load_manifest(ret[p].val[i]).status = "NotFound"
                              /\ ~archives[ret[p].val[i]].exists

\* a cleanup removed an expired manifest with its archive and kept a saved
\* manifest that expires at this very instant or later
C4_Witness ==
    \E p \in Procs :
        /\ ret[p].op = "cleanup_expired"
        /\ ret[p].status = "Ok"
        /\ Len(ret[p].val) = 1
        /\ loc[p].pre.archives[ret[p].val[1]].exists
        /\ \E id \in Ids :
               /\ load_manifest(id).status = "Ok"
               /\ load_manifest(id).val.retention_until >= now
               /\ Indexed(index, id)

\* C6: an initialize that found an index leaves index.json, every manifest
\* file and every archive as it found them, and the index lists no id twice.
C6_InitializeIdempotent ==
    /\ \A p \in Procs :
           (/\ ret[p].op = "initialize"
            /\ loc[p].pre.index.state # "absent") =>
               /\ ret[p].status = "Ok"
               /\ index = loc[p].pre.index
               /\ manifests = loc[p].pre.manifests
               /\ archives = loc[p].pre.archives
               /\ index.state = "ok" => NoDup(index.val)
    /\ Quiet => (index.state = "ok" /\ NoDup(index.val)) \/ index.state = "absent"

\* initialize ran again on a root with an indexed manifest and an archive
C6_Witness ==
    \E p \in Procs :
        /\ ret[p].op = "initialize"
        /\ ret[p].status = "Ok"
        /\ loc[p].pre.index.state = "ok"
        /\ loc[p].pre.index.val # <<>>
        /\ \E id \in Ids : loc[p].pre.manifests[id].state = "ok"
        /\ \E id \in Ids : loc[p].pre.archives[id].exists

\* C7: after a save_manifest that returned Ok, loading the id gives the
\* manifest that was saved and the index lists the id exactly once; a save
\* of an id the index already listed leaves the index as it was; and between
\* calls every manifest that can be loaded is listed in the index exactly
\* once.
C7_SaveIdempotent ==
    /\ \A p \in Procs :
           (ret[p].op = "save_manifest" /\ ret[p].status = "Ok") =>
               /\ load_manifest(loc[p].arg) = [status |-> "Ok", val |-> loc[p].m]
               /\ index.state = "ok"
               /\ Count(index.val, loc[p].arg) = 1
               /\ Indexed(loc[p].pre.index, loc[p].arg) => index = loc[p].pre.index
    /\ Quiet =>
           \A id \in Ids :
               load_manifest(id).status = "Ok" =>
                   index.state = "ok" /\ Count(index.val, id) = 1

\* a manifest was saved again while the index listed it and another id
C7_Witness ==
    \E p \in Procs :
        /\ ret[p].op = "save_manifest"
        /\ ret[p].status = "Ok"
        /\ Indexed(loc[p].pre.index, loc[p].arg)
        /\ Len(index.val) = 2

(***************************************************************************)
(* Properties of archive and restore (SpecArchive).                        *)
(***************************************************************************)
\* the archived copy of item as the recovery root snap holds it
CopyIn(snap, item) ==
    LET a == snap.archives[item.archive_path[2]]
    IN  IF a.exists THEN a.files[SubSeq(item.archive_path, 3, Len(item.archive_path))]
        ELSE NoEntry

\* restore can put item back: its copy is there with the checksum the item
\* records, and so is the directory of its original path
Restorable(snap, item) ==
    /\ CopyIn(snap, item).kind = "file"
    /\ Checksum(CopyIn(snap, item).content) = item.checksum
    /\ fs[Parent(item.original_path)].exists

C5_InitializeKeepsIndex ==
    [][\A p \in Procs :
          (/\ loc[p].op = "initialize"
           /\ pc'[p] # pc[p]
           /\ index.state = "ok"
           /\ index.val # <<>>) => index' = index]_vars


\* C11: a load_manifest or a restore_recovery of an id that has no manifest
\* file returns NotFound and leaves index.json, every manifest file and
\* every archive as they were.
C11_UnknownIdNotFound ==
    \A p \in Procs :
        (/\ ret[p].op \in {"load_manifest", "restore_recovery"}
         /\ loc[p].pre.manifests[loc[p].arg].state = "absent") =>
            /\ ret[p].status = "NotFound"
            /\ ret[p].val = <<>> \/ ret[p].val = NoManifest
            /\ index = loc[p].pre.index
            /\ manifests = loc[p].pre.manifests
            /\ archives = loc[p].pre.archives

\* an id without a manifest file was loaded on a root that holds a saved
\* manifest and an archive
C11_Witness ==
    \E p \in Procs :
        /\ ret[p].op = "load_manifest"
        /\ ret[p].status = "NotFound"
        /\ manifests[loc[p].arg].state = "absent"
        /\ index.state = "ok"
        /\ index.val # <<>>
        /\ \E id \in Ids : manifests[id].state = "ok" /\ archives[id].exists


Loadable(snap) ==
    {id \in Ids : Indexed(snap.index, id) /\ snap.manifests[id].state = "ok"}

\* the list holds the manifests of snap's loadable ids, each once
ListsLoadable(list, snap) ==
    /\ Len(list) = Cardinality(Loadable(snap))
    /\ \A id \in Loadable(snap) :
           \E i \in DOMAIN list : list[i] = snap.manifests[id].val

\* C13: a list_recoveries that finds no index.json returns Ok with the empty
\* list; one that finds an index some of whose ids have no manifest file
\* returns Ok with the manifests of all the other indexed ids and without
\* the missing ones.
C13_ListSkipsMissing ==
    \A p \in Procs :
        ret[p].op = "list_recoveries" =>
            /\ loc[p].pre.index.state = "absent" =>
                   ret[p].status = "Ok" /\ ret[p].val = <<>>
            /\ (/\ loc[p].pre.index.state = "ok"
                /\ \A id \in Ids : loc[p].pre.manifests[id].state # "corrupt") =>
                   /\ ret[p].status = "Ok"
                   /\ ListsLoadable(ret[p].val, loc[p].pre)
                   /\ \A i \in DOMAIN ret[p].val :
                          loc[p].pre.manifests[ret[p].val[i].id].state # "absent"

\* the index named two ids, the manifest file of one was missing, and the
\* other was listed
C13_Witness ==
    \E p \in Procs :
        /\ ret[p].op = "list_recoveries"
        /\ ret[p].status = "Ok"
        /\ loc[p].pre.index.state = "ok"
        /\ Len(loc[p].pre.index.val) = 2
        /\ \E id \in Ids :
               Indexed(loc[p].pre.index, id) /\ loc[p].pre.manifests[id].state = "absent"
        /\ Len(ret[p].val) = 1

\* C14: a list_recoveries never fails as a whole because index.json or a
\* manifest file cannot be read or parsed: it returns Ok, and where the
\* index can be read, the manifests that still load.
C14_ListDegrades ==
    \A p \in Procs :
        ret[p].op = "list_recoveries" =>
            /\ ret[p].status = "Ok"
            /\ loc[p].pre.index.state = "ok" => ListsLoadable(ret[p].val, loc[p].pre)


(***************************************************************************)
(* Properties of create_manifest (SpecStore).                              *)
(***************************************************************************)
\* process p returns from create_manifest in this step
CreateReturns(p) == pc[p] = "cm_timestamp" /\ pc'[p] = "idle"

\* C15: the id of a manifest that create_manifest returns differs from the
\* id of every manifest an earlier create_manifest returned: those a caller
\* still holds and those saved under manifests/.
C15_FreshId ==
    [][\A p \in Procs :
          CreateReturns(p) =>
              /\ \A q \in Procs :
                     loc[q].m # NoManifest => loc[q].m.id # loc'[p].m.id
              /\ manifests[loc'[p].m.id].state = "absent"]_vars


\* C16: a manifest is purged only when it has expired, and an id that was
\* purged stays purged: no manifest loads under it again and no
\* list_recoveries returns it again.
C16_Lifecycle ==
    /\ \A id \in purged : load_manifest(id).status # "Ok"
    /\ \A p \in Procs :
           (ret[p].op = "list_recoveries" /\ ret[p].status = "Ok") =>
               \A i \in DOMAIN ret[p].val : ret[p].val[i].id \notin purged
    /\ \A p \in Procs :
           (loc[p].op = "cleanup_expired" \/ ret[p].op = "cleanup_expired") =>
               \A id \in Ids :
                   (/\ loc[p].pre.manifests[id].state = "ok"
                    /\ manifests[id].state = "absent") =>
                       loc[p].pre.manifests[id].val.retention_until < now


\* create_manifest built its manifest in memory and wrote nothing
CreateManifestPure(p) ==
    /\ ret[p].status = "Ok"
    /\ ret[p].val.id \in Ids
    /\ ret[p].val.items = <<>>
    /\ ret[p].val.total_size = 0
    /\ ret[p].val.retention_until = ret[p].val.timestamp + Days(loc[p].arg)
    /\ loc[p].m = ret[p].val
    /\ index = loc[p].pre.index
    /\ manifests = loc[p].pre.manifests
    /\ archives = loc[p].pre.archives

CreateManifestIsPure ==
    \A p \in Procs : ret[p].op = "create_manifest" => CreateManifestPure(p)

\* C17: the manifest create_manifest(retention_days) returns has an id, no
\* items, total_size 0 and retention_until = timestamp + retention_days
\* days; the call leaves index.json, manifests/ and archives/ as they were;
\* and the new id is not listed in the index when the call returns.
C17_CreateManifestFrame ==
    \A p \in Procs :
        ret[p].op = "create_manifest" =>
            /\ CreateManifestPure(p)
            /\ ~Indexed(index, ret[p].val.id)


(***************************************************************************)
(* Further properties of DuplicateDetector (SpecDup).                      *)
(***************************************************************************)
\* the walked regular files of no bytes below the scanned root
ZeroByte ==
    {n \in scan.walked :
        /\ fs[scan.path].entries[n].kind = "file"
        /\ fs[scan.path].entries[n].content = <<>>}

\* the file named n is among the files find_duplicates collected
Collected(n) == \E i \in DOMAIN scan.files : scan.files[i].path = scan.path \o <<n>>

\* C18: in an Ok result of find_duplicates every collected file and every
\* member of every group is a regular file of at least min_size bytes, so no
\* smaller file and no non-regular entry is in a group, and
\* potential_savings is made of the sizes on disk of such members alone;
\* with min_size = 0 every walked zero-byte file is collected and any two of
\* them are members of one common group.
C18_MinSizeFilter ==
    scan.status = "Ok" =>
        /\ \A i \in DOMAIN scan.files :
               /\ EntryAt(scan.files[i].path).kind = "file"
               /\ Len(EntryAt(scan.files[i].path).content) >= scan.min_size
        /\ \A i \in DOMAIN scan.duplicates : \A j \in DOMAIN scan.duplicates[i] :
               /\ EntryAt(scan.duplicates[i][j].path).kind = "file"
               /\ Len(EntryAt(scan.duplicates[i][j].path).content) >= scan.min_size
               /\ scan.duplicates[i][j].size = Len(EntryAt(scan.duplicates[i][j].path).content)
        /\ \A n \in Names :
               (\/ fs[scan.path].entries[n].kind # "file"
                \/ Len(fs[scan.path].entries[n].content) < scan.min_size) =>
                   /\ ~Collected(n)
                   /\ \A i \in DOMAIN scan.duplicates : ~InGroup(n, i)
        /\ scan.potential_savings =
               SumSeq([i \in DOMAIN scan.duplicates |->
                   SumSeq([j \in DOMAIN scan.duplicates[i] |->
                       Len(EntryAt(scan.duplicates[i][j].path).content)])
                   - Len(EntryAt(scan.duplicates[i][1].path).content)])
        /\ scan.min_size = 0 =>
               /\ \A n \in ZeroByte : Collected(n)
               /\ \A n, m \in ZeroByte :
                      n # m => \E i \in DOMAIN scan.duplicates : InGroup(n, i) /\ InGroup(m, i)

\* with min_size = 1 an empty file and a directory stayed out of the
\* result while two files of one byte made the only group
C18_Witness ==
    /\ scan.status = "Ok"
    /\ scan.min_size = 1
    /\ ZeroByte # {}
    /\ \E n \in scan.walked : fs[scan.path].entries[n].kind = "dir"
    /\ Len(scan.duplicates) = 1
    /\ Len(scan.duplicates[1]) = 2
    /\ scan.potential_savings = 1

\* with min_size = 0 two empty files made a group
ZeroByteGroup ==
    /\ scan.status = "Ok"
    /\ scan.min_size = 0
    /\ \E n, m \in ZeroByte :
           n # m /\ \E i \in DOMAIN scan.duplicates : InGroup(n, i) /\ InGroup(m, i)

\* C19: every group of an Ok result has two members or more; when no two of
\* the walked files of at least min_size have the same bytes (an empty
\* directory included) the result has no group and potential_savings is 0.
C19_GroupsOfTwo ==
    scan.status = "Ok" =>
        /\ \A i \in DOMAIN scan.duplicates : Len(scan.duplicates[i]) >= 2
        /\ (\A n, m \in Eligible : n # m => ~SameContent(n, m)) =>
               /\ scan.duplicates = <<>>
               /\ scan.potential_savings = 0

\* three files of three different contents gave no group
C19_Witness ==
    /\ scan.status = "Ok"
    /\ Cardinality(Eligible) = 3
    /\ \A n, m \in Eligible : n # m => ~SameContent(n, m)
    /\ scan.duplicates = <<>>
    /\ scan.potential_savings = 0

(***************************************************************************)
(* Further properties of SystemCleaner (SpecClean).                        *)
(***************************************************************************)
\* every path of the target expands: none needs a home directory that
\* dirs::home_dir() does not deliver
Resolves(target) ==
    \A i \in DOMAIN TargetPaths(target) : expand_path(TargetPaths(target)[i]).ok

\* the roots the paths of the target expand to
Roots(target) ==
    {expand_path(TargetPaths(target)[i]).path : i \in DOMAIN TargetPaths(target)}

C21_UnreadableFileSkipped ==
    (scan.status # "none" /\ fs[scan.path].exists) =>
        /\ scan.status = "Ok"
        /\ scan.hashed = Len(scan.files)


(***************************************************************************)
(* Properties of RecoveryManager when calls of std::fs fail (SpecFaults).  *)
(***************************************************************************)
\* the ids whose manifest file was there when the call of p began and is
\* there no more
Removed(p) ==
    {id \in Ids : loc[p].pre.manifests[id].state # "absent" /\ manifests[id].state = "absent"}

\* C22: a cleanup_expired that returns Ok reports exactly the ids whose
\* manifest it removed, each once: every reported id was expired, has no
\* archive directory and no manifest file left and is not in index.json;
\* a cleanup_expired that returns an error reports no id.
C22_CleanedAfterRemoval ==
    \A p \in Procs :
        ret[p].op = "cleanup_expired" =>
            /\ ret[p].status # "Ok" => ret[p].val = <<>>
            /\ ret[p].status = "Ok" =>
                   /\ NoDup(ret[p].val)
                   /\ {ret[p].val[i] : i \in DOMAIN ret[p].val} = Removed(p)
                   /\ \A i \in DOMAIN ret[p].val :
                          LET id == ret[p].val[i]
                          IN  /\ loc[p].pre.manifests[id].state = "ok"
                              /\ loc[p].pre.manifests[id].val.retention_until < now
                              /\ ~archives[id].exists
                              /\ manifests[id].state = "absent"
                              /\ ~Indexed(index, id)
                              /\ index.state = "ok"

\* a cleanup reported an id whose archive held a file, and kept another
C22_Witness ==
    \E p \in Procs :
        /\ ret[p].op = "cleanup_expired"
        /\ ret[p].status = "Ok"
        /\ Len(ret[p].val) = 1
        /\ loc[p].pre.archives[ret[p].val[1]].exists
        /\ \E id \in Ids : Indexed(index, id) /\ manifests[id].state = "ok"

\* C29: when cleanup_expired has returned, Ok or Err, index.json lists no
\* id whose manifest file the call removed, and no manifest file is left of
\* a recovery whose archive directory the call removed.
C29_CleanupConsistent ==
    \A p \in Procs :
        ret[p].op = "cleanup_expired" =>
            \A id \in Ids :
                /\ id \in Removed(p) => ~Indexed(index, id)
                /\ (loc[p].pre.archives[id].exists /\ ~archives[id].exists) =>
                       manifests[id].state = "absent"


C25_WalkOrderInGroups ==
    scan.status = "Ok" =>
        \A i \in DOMAIN scan.duplicates : \A j, k \in DOMAIN scan.duplicates[i] :
            j < k => WalkRank(Leaf(scan.duplicates[i][j].path))
                         < WalkRank(Leaf(scan.duplicates[i][k].path))


(***************************************************************************)
(* What CleanResult counts (SpecClean).                                    *)
(***************************************************************************)
\* the files that were below the cleaner's roots when the call began and
\* are at their place no more
RemovedFiles ==
    {f \in {d \o <<n>> : d \in CleanRoots, n \in Names} :
        /\ cleaned.before[Parent(f)].entries[Leaf(f)].kind = "file"
        /\ EntryAt(f).kind # "file"}

\* C26: in an Ok result of clean, files_cleaned is the number of the files
\* the call removed from their place and bytes_freed is the sum of their
\* sizes; a file whose removal failed is in neither, and a call that
\* removed nothing reports files_cleaned = 0.
C26_CountsRemoved ==
    cleaned.status = "Ok" =>
        /\ cleaned.files_cleaned = Cardinality(RemovedFiles)
        /\ \E q \in Orderings(RemovedFiles) :
               cleaned.bytes_freed =
                   SumSeq([i \in DOMAIN q |->
                       Len(cleaned.before[Parent(q[i])].entries[Leaf(q[i])].content)])
        /\ fs = cleaned.before => cleaned.files_cleaned = 0

\* the same of the calls that are not dry runs
LiveCountsRemoved == ~cleaned.dry_run => C26_CountsRemoved


(***************************************************************************)
(* What a save does to the index (SpecDamage).                             *)
(***************************************************************************)
\* C27: after a save_manifest that returned Ok, every manifest file that
\* was there before the call and is still there has its id in index.json,
\* and so is returned by list_recoveries, whatever index.json held before,
\* a text that does not parse included; what the index lists beside them
\* is the saved id.
C27_SaveKeepsIndex ==
    \A p \in Procs :
        (ret[p].op = "save_manifest" /\ ret[p].status = "Ok") =>
            /\ \A id \in Ids :
                   (/\ loc[p].pre.manifests[id].state = "ok"
                    /\ manifests[id].state = "ok") => Indexed(index, id)
            /\ \A id \in Ids :
                   Indexed(index, id) =>
                       id = loc[p].arg \/ Indexed(loc[p].pre.index, id)


(***************************************************************************)
(* Manifests of separate runs (SpecStore).                                 *)
(***************************************************************************)
\* the stored manifest is an earlier state of the manifest m of the same
\* create_manifest call: the same id and timestamp, and items that m still
\* begins with
EarlierStateOf(stored, m) ==
    /\ stored.id = m.id
    /\ stored.timestamp = m.timestamp
    /\ stored.retention_until = m.retention_until
    /\ Len(stored.items) <= Len(m.items)
    /\ stored.items = SubSeq(m.items, 1, Len(stored.items))

\* C28: the manifest file a save_manifest that returned Ok has replaced, if
\* there was one, held an earlier state of the very manifest saved, never
\* the manifest of another create_manifest call; so the manifests of two
\* calls that were both saved both stay loadable with their own items.
C28_NoOverwrite ==
    \A p \in Procs :
        (/\ ret[p].op = "save_manifest"
         /\ ret[p].status = "Ok"
         /\ loc[p].pre.manifests[loc[p].arg].state = "ok") =>
            EarlierStateOf(loc[p].pre.manifests[loc[p].arg].val, loc[p].m)


(***************************************************************************)
(* Two users of one recovery root (SpecSavers, SpecPurge).                 *)
(***************************************************************************)
\* both users have a save_manifest returned Ok, for different ids
BothSaved ==
    /\ \A p \in Procs : ret[p].op = "save_manifest" /\ ret[p].status = "Ok"
    /\ loc[1].arg # loc[2].arg

\* C23: when two save_manifest calls for different ids have both returned
\* Ok, however their steps interleaved, both manifest files hold their
\* manifests and index.json holds an index that one of the calls wrote: it
\* parses and lists the id of at least one of them.
C23_LastWriterWins ==
    BothSaved =>
        /\ \A p \in Procs : manifests[loc[p].arg] = ManifestText(loc[p].m)
        /\ index.state = "ok"
        /\ \E p \in Procs : Indexed(index, loc[p].arg)

\* C30: when a save_manifest of a manifest that has not expired, under an
\* id that no purge has removed, and a cleanup_expired of the other user
\* have both returned Ok, however their steps interleaved, the saved id is
\* in index.json and its manifest file holds the manifest, so
\* list_recoveries returns it.
C30_CleanupKeepsSave ==
    \A p, q \in Procs :
        (/\ p # q
         /\ ret[p].op = "save_manifest" /\ ret[p].status = "Ok"
         /\ ret[q].op = "cleanup_expired" /\ ret[q].status = "Ok"
         /\ loc[p].m.retention_until >= now
         /\ loc[p].arg \notin purged) =>
            /\ Indexed(index, loc[p].arg)
            /\ manifests[loc[p].arg] = ManifestText(loc[p].m)

====
